---- MODULE Spec2Model ----
(***************************************************************************)
(* Model of homework_bot (src/homework.py, src/exceptions.py): a single    *)
(* polling loop that fetches homework statuses, validates the response,    *)
(* parses every record, notifies a chat and sleeps.                        *)
(*                                                                         *)
(* Texts: the program's Russian log/message literals are written here in   *)
(* Latin transliteration, because the module has to stay ASCII.  A text is *)
(* a sequence of string fragments; an f-string is the concatenation of its *)
(* literal parts and of the str() of its fields.                           *)
(***************************************************************************)
EXTENDS Integers, Sequences, FiniteSets, TLC

VARIABLES
    pc,                 \* position of main(): the statement about to run
    now,                \* the wall clock, what int(time.time()) would return
    current_timestamp,  \* main's cursor (line 166, line 175)
    net,                \* what the network answered to this iteration's GET
    response,           \* main's local `response` (line 170)
    homeworks,          \* main's local `homeworks` (line 171)
    idx,                \* position of the for loop (line 172), 1-based
    message,            \* main's local `message` (lines 173, 177)
    error,              \* the exception main's handler caught in this iteration
    uncaught,           \* an exception is propagating out of main's try statement
    from_date,          \* params['from_date'] of the latest request (line 63)
    attempts,           \* history: bot.send_message calls of this iteration
    t_start,            \* history: the clock when this iteration began
    t_read,             \* history: the clock read at line 175 in this iteration
    last_read,          \* history: what the latest int(time.time()) returned
    iteration,          \* history: number of the iteration of `while True`
    verdicts,           \* the dict bound to HOMEWORK_STATUSES (line 26)
    credentials,        \* which of the three globals of lines 17-19 are set
    token_checks,       \* history: what each call of check_tokens did
    sleeps_since_fetch, \* history: time.sleep calls since the latest request
    prev,               \* history: summary of the previous iteration
    replay,             \* the answer a replaying server holds for the next poll
    prev_attempts       \* history: attempts of a failed iteration being replayed

vars == <<pc, now, current_timestamp, net, response, homeworks, idx, message,
          error, uncaught, from_date, attempts, t_start, t_read, last_read,
          iteration, verdicts, credentials, token_checks, sleeps_since_fetch,
          prev, replay, prev_attempts>>

----------------------------------------------------------------------------
(* Bounds of the model *)

MaxRecords == 2
MaxLatency == 1
MaxTime == 1200

(* Program constants *)

RETRY_TIME == 600
HTTP_OK == 200

None == "None"

----------------------------------------------------------------------------
(* Exceptions *)

\* src/exceptions.py: four classes, each `class X(Exception)`.
CustomExceptions ==
    {"HTTPStatusError", "ServerError", "CheckApiAnswerError", "ParseError"}

\* Builtin and library exception classes the program raises or receives.
\* All of them derive from Exception.
ExceptionSubclasses ==
    CustomExceptions \cup
        {"TypeError", "KeyError", "ConnectionError", "JSONDecodeError",
         "TelegramError"}

NoError == [cls |-> None, text |-> <<>>]

Exc(cls, text) == [cls |-> cls, text |-> text]

Returns(v) == [raised |-> FALSE, error |-> NoError, value |-> v]
Raises(e) == [raised |-> TRUE, error |-> e, value |-> None]

\* repr() of a str: single quotes, unless the string holds a single quote
\* (and no double quote), then double quotes.
Repr(text) ==
    IF \E i \in 1..Len(text) : text[i] = "'"
    THEN <<"\"">> \o text \o <<"\"">>
    ELSE <<"'">> \o text \o <<"'">>

\* str(error): the message, except that a KeyError prints the repr of its key.
Str(e) == IF e.cls = "KeyError" THEN Repr(e.text) ELSE e.text

----------------------------------------------------------------------------
(* The data the server can send *)

\* Line 26: the verdict table (texts transliterated).
HOMEWORK_STATUSES ==
    [approved |-> "Rabota proverena: revyueru vsyo ponravilos. Ura!",
     reviewing |-> "Rabota vzyata na proverku revyuerom.",
     rejected |-> "Rabota proverena: u revyuera est zamechaniya."]

\* Values homework.get('status') can give: None when the field is absent,
\* a known status, or one the table does not have.
StatusValues == {None, "approved", "reviewing", "rejected", "graded"}

\* Values homework.get('homework_name') can give.
NameValues == {None, "proj1"}

HomeworkRecords == [status : StatusValues, homework_name : NameValues]

RECURSIVE SeqsUpTo(_, _)
SeqsUpTo(S, n) ==
    IF n = 0 THEN {<<>>}
    ELSE LET shorter == SeqsUpTo(S, n - 1)
         IN  shorter \cup {Append(q, x) : q \in {r \in shorter : Len(r) = n - 1}, x \in S}

\* Decoded JSON bodies, by the features check_response looks at.
Body(is_dict, has_hw, has_cd, is_list, hws) ==
    [is_dict |-> is_dict, has_homeworks |-> has_hw, has_current_date |-> has_cd,
     homeworks_is_list |-> is_list, homeworks |-> hws]

Bodies ==
    {Body(FALSE, FALSE, FALSE, FALSE, <<>>)}                       \* e.g. a JSON array
    \cup {Body(TRUE, FALSE, cd, FALSE, <<>>) : cd \in BOOLEAN}     \* no 'homeworks'
    \cup {Body(TRUE, TRUE, FALSE, l, <<>>) : l \in BOOLEAN}        \* no 'current_date'
    \cup {Body(TRUE, TRUE, TRUE, FALSE, <<>>)}                     \* 'homeworks' not a list
    \cup {Body(TRUE, TRUE, TRUE, TRUE, h) : h \in SeqsUpTo(HomeworkRecords, MaxRecords)}

NoBody == Body(FALSE, FALSE, FALSE, FALSE, <<>>)

StatusCodes == {200, 404, 500}

\* What requests.get can do: raise, or return a status code and a body that
\* .json() can or cannot decode.
Answer(transport, code, decodable, body) ==
    [transport |-> transport, status_code |-> code, decodable |-> decodable,
     body |-> body]

Answers ==
    {Answer("fail", 0, FALSE, NoBody)}
    \cup {Answer("ok", c, d, NoBody) : c \in StatusCodes \ {HTTP_OK}, d \in BOOLEAN}
    \cup {Answer("ok", HTTP_OK, FALSE, NoBody)}
    \cup {Answer("ok", HTTP_OK, TRUE, b) : b \in Bodies}

NoAnswer == Answer(None, 0, FALSE, NoBody)

----------------------------------------------------------------------------
(* The functions of src/homework.py *)

\* A query that reads the clock instead of taking the caller's timestamp.
ParamsNow(timestamp) == [from_date |-> now]

\* Lines 62-63: the query of the request.
Params(timestamp) == [from_date |-> timestamp]

\* A client that decodes the body before it looks at the status code.
get_api_answer_decodes_first(answer) ==
    IF answer.transport = "fail"
    THEN Raises(Exc("ServerError",
                    <<"Sboy! Server ne dostupen! ", "ConnectionError", ".">>))
    ELSE IF ~answer.decodable
    THEN Raises(Exc("ServerError",
                    <<"Sboy! Dannye polucheny ne v formate json! ",
                      "JSONDecodeError", ".">>))
    ELSE IF answer.status_code # HTTP_OK
    THEN Raises(Exc("HTTPStatusError",
                    <<"Sboy! Kod otveta: ", ToString(answer.status_code), ".!">>))
    ELSE Returns(answer.body)

\* A client that calls .json() outside any try statement.
get_api_answer_json_unguarded(answer) ==
    IF answer.transport = "fail"
    THEN Raises(Exc("ServerError",
                    <<"Sboy! Server ne dostupen! ", "ConnectionError", ".">>))
    ELSE IF answer.status_code # HTTP_OK
    THEN Raises(Exc("HTTPStatusError",
                    <<"Sboy! Kod otveta: ", ToString(answer.status_code), ".!">>))
    ELSE IF ~answer.decodable
    THEN Raises(Exc("JSONDecodeError", <<"Expecting value">>))
    ELSE Returns(answer.body)

\* Lines 64-94: what get_api_answer does with the answer of requests.get.
get_api_answer(answer) ==
    IF answer.transport = "fail"
    THEN Raises(Exc("ServerError",
                    <<"Sboy! Server ne dostupen! ", "ConnectionError", ".">>))
    ELSE IF answer.status_code # HTTP_OK
    THEN Raises(Exc("HTTPStatusError",
                    <<"Sboy! Kod otveta: ", ToString(answer.status_code), ".!">>))
    ELSE IF ~answer.decodable
    THEN Raises(Exc("ServerError",
                    <<"Sboy! Dannye polucheny ne v formate json! ",
                      "JSONDecodeError", ".">>))
    ELSE Returns(answer.body)

\* A validator whose key test is `'homeworks' and 'current_date' not in
\* response`, which looks for current_date only; response['homeworks'] then
\* fails on its own when that key is absent.
check_response_one_key(resp) ==
    IF ~resp.is_dict
    THEN Raises(Exc("TypeError", <<"Otvet peredan ne v formate dict">>))
    ELSE IF ~resp.has_current_date
    THEN Raises(Exc("CheckApiAnswerError",
                    <<"V slovare otsutvuet klyuch current_date">>))
    ELSE IF ~resp.has_homeworks
    THEN Raises(Exc("KeyError", <<"homeworks">>))
    ELSE IF ~resp.homeworks_is_list
    THEN Raises(Exc("CheckApiAnswerError",
                    <<"Domashnie raboty prishli ne v vide spiska">>))
    ELSE Returns(resp.homeworks)

\* A validator that asks for current_date before it asks for homeworks.
check_response_date_first(resp) ==
    IF ~resp.is_dict
    THEN Raises(Exc("TypeError", <<"Otvet peredan ne v formate dict">>))
    ELSE IF ~resp.has_current_date
    THEN Raises(Exc("CheckApiAnswerError",
                    <<"V slovare otsutvuet klyuch current_date">>))
    ELSE IF ~resp.has_homeworks
    THEN Raises(Exc("CheckApiAnswerError",
                    <<"V slovare otsutvuet klyuch homeworks">>))
    ELSE IF ~resp.homeworks_is_list
    THEN Raises(Exc("CheckApiAnswerError",
                    <<"Domashnie raboty prishli ne v vide spiska">>))
    ELSE Returns(resp.homeworks)

\* A validator that hands the records back newest last (homeworks[::-1]).
check_response_reversed(resp) ==
    IF ~resp.is_dict
    THEN Raises(Exc("TypeError", <<"Otvet peredan ne v formate dict">>))
    ELSE IF ~resp.has_homeworks
    THEN Raises(Exc("CheckApiAnswerError",
                    <<"V slovare otsutvuet klyuch homeworks">>))
    ELSE IF ~resp.has_current_date
    THEN Raises(Exc("CheckApiAnswerError",
                    <<"V slovare otsutvuet klyuch current_date">>))
    ELSE IF ~resp.homeworks_is_list
    THEN Raises(Exc("CheckApiAnswerError",
                    <<"Domashnie raboty prishli ne v vide spiska">>))
    ELSE Returns([k \in 1..Len(resp.homeworks) |->
                    resp.homeworks[Len(resp.homeworks) + 1 - k]])

\* Lines 97-122.  A mapping is described by what the function asks of it.
check_response(resp) ==
    IF ~resp.is_dict
    THEN Raises(Exc("TypeError", <<"Otvet peredan ne v formate dict">>))
    ELSE IF ~resp.has_homeworks
    THEN Raises(Exc("CheckApiAnswerError",
                    <<"V slovare otsutvuet klyuch homeworks">>))
    ELSE IF ~resp.has_current_date
    THEN Raises(Exc("CheckApiAnswerError",
                    <<"V slovare otsutvuet klyuch current_date">>))
    ELSE IF ~resp.homeworks_is_list
    THEN Raises(Exc("CheckApiAnswerError",
                    <<"Domashnie raboty prishli ne v vide spiska">>))
    ELSE Returns(resp.homeworks)

\* Line 141: the f-string of the notification.
\* A message that leaves the name unquoted.
StatusMessageUnquoted(homework_name, verdict) ==
    <<"Izmenilsya status proverki raboty ", homework_name, ". ", verdict>>

StatusMessage(homework_name, verdict) ==
    <<"Izmenilsya status proverki raboty \"", homework_name, "\". ", verdict>>

\* A parser that looks the verdict up with HOMEWORK_STATUSES.get(status).
parse_status_lenient(homework) ==
    LET homework_status == homework.status
        homework_name == homework.homework_name
    IN  IF homework_status = None
        THEN Raises(Exc("ParseError", <<"Domashney rabote ne prisvoen status">>))
        ELSE IF homework_name = None
        THEN Raises(Exc("KeyError", <<"Domashney rabote ne prisvoeno nazvanie">>))
        ELSE Returns(StatusMessage(homework_name,
                        IF homework_status \in DOMAIN verdicts
                        THEN verdicts[homework_status]
                        ELSE None))

\* A parser that tests the name before the status.
parse_status_name_first(homework) ==
    LET homework_status == homework.status
        homework_name == homework.homework_name
    IN  IF homework_name = None
        THEN Raises(Exc("KeyError", <<"Domashney rabote ne prisvoeno nazvanie">>))
        ELSE IF homework_status = None
        THEN Raises(Exc("ParseError", <<"Domashney rabote ne prisvoen status">>))
        ELSE IF homework_status \in DOMAIN verdicts
        THEN Returns(StatusMessage(homework_name,
                                   verdicts[homework_status]))
        ELSE Raises(Exc("KeyError",
                        <<"Domashney rabote prisvoen neizvestnyy status. ">>
                            \o Str(Exc("KeyError", <<homework_status>>))))

\* Lines 125-149.  homework.get gives None for an absent field; the lookup
\* of line 140 fails for a status the table does not have.
parse_status(homework) ==
    LET homework_status == homework.status
        homework_name == homework.homework_name
    IN  IF homework_status = None
        THEN Raises(Exc("ParseError", <<"Domashney rabote ne prisvoen status">>))
        ELSE IF homework_name = None
        THEN Raises(Exc("KeyError", <<"Domashney rabote ne prisvoeno nazvanie">>))
        ELSE IF homework_status \in DOMAIN verdicts
        THEN Returns(StatusMessage(homework_name,
                                   verdicts[homework_status]))
        ELSE Raises(Exc("KeyError",
                        <<"Domashney rabote prisvoen neizvestnyy status. ">>
                            \o Str(Exc("KeyError", <<homework_status>>))))

\* A handler that names only the transport's exception.
send_message_catches_network(cls) == cls \in {"ConnectionError"}

\* Line 54: `except Exception` in send_message.
send_message_catches(cls) == cls \in ExceptionSubclasses

\* Lines 49-57.  `outcome` is what bot.send_message does: "ok" or "fail".
\* The attempt is recorded; the result says whether an exception leaves.
send_message(text, outcome) ==
    LET attempt == [text |-> text, delivered |-> (outcome = "ok")]
    IN  IF outcome = "ok" \/ send_message_catches("TelegramError")
        THEN Returns(attempt)
        ELSE [raised |-> TRUE,
              error |-> Exc("TelegramError", <<"send failed">>),
              value |-> attempt]

\* Lines 17-19: the three credentials read from the environment.
Credentials == {"PRACTICUM_TOKEN", "TELEGRAM_TOKEN", "TELEGRAM_CHAT_ID"}

\* A check that is content with any one credential (any() for all()).
check_tokens_any(present) ==
    IF present # {}
    THEN [returned |-> TRUE, logged |-> "info"]
    ELSE [returned |-> FALSE, logged |-> "critical"]

\* Lines 152-160.  `present` is the set of credentials that are set.
check_tokens(present) ==
    IF \A c \in Credentials : c \in present
    THEN [returned |-> TRUE, logged |-> "info"]
    ELSE [returned |-> FALSE, logged |-> "critical"]

\* Line 165: Bot(token=TELEGRAM_TOKEN), the constructor of the telegram
\* library.  With the token set it returns the client; what it does with
\* the None of an unset token is not the program's to decide: it may
\* return or raise.
Bot(present) ==
    IF "TELEGRAM_TOKEN" \in present THEN {"ok"} ELSE {"ok", "raise"}

\* A handler that names only the classes imported from exceptions.py.
main_catches_imported(cls) == cls \in CustomExceptions

\* Line 176: `except Exception as error` in main.
main_catches(cls) == cls \in ExceptionSubclasses

\* Line 177: the f-string of the failure message.
FailureMessage(e) == <<"Sboy v rabote programmy: ">> \o Str(e)

----------------------------------------------------------------------------
(* main(), lines 163-180, one action per statement *)

Delays == 0..MaxLatency
Outcomes == {"ok", "fail"}

TypeOK ==
    /\ pc \in {"main", "get_api_answer", "check_response", "for",
               "send_message", "except", "sleep", "exited"}
    /\ now \in 0..MaxTime
    /\ current_timestamp \in 0..MaxTime
    /\ net.status_code \in StatusCodes \cup {0}
    /\ Len(response.homeworks) <= MaxRecords
    /\ \A i \in 1..Len(homeworks) : homeworks[i] \in HomeworkRecords
    /\ idx \in 1..(MaxRecords + 1)
    /\ error.cls \in ExceptionSubclasses \cup {None}
    /\ uncaught \in BOOLEAN
    /\ from_date \in 0..MaxTime
    /\ Len(attempts) <= MaxRecords + 1
    /\ t_start \in 0..MaxTime
    /\ t_read \in -1..MaxTime
    /\ last_read \in -1..MaxTime
    /\ iteration \in 0..(MaxTime \div RETRY_TIME + 1)
    /\ verdicts \in [DOMAIN HOMEWORK_STATUSES -> STRING]
    /\ credentials \subseteq Credentials
    /\ Len(token_checks) <= 1
    /\ sleeps_since_fetch \in 0..1
    /\ prev.failed \in BOOLEAN
    /\ prev.from_date \in -1..MaxTime
    /\ replay.status_code \in StatusCodes \cup {0}
    /\ Len(prev_attempts) <= MaxRecords + 1

NoPrev == [failed |-> FALSE, from_date |-> -1]

\* The process starts at some moment; nothing of main has run yet.  The
\* credentials are read by check_tokens alone, whose result main discards;
\* here all three are set, StartupInit below gives every environment.
Init ==
    /\ pc = "main"
    /\ now = 0
    /\ current_timestamp = 0
    /\ net = NoAnswer
    /\ response = NoBody
    /\ homeworks = <<>>
    /\ idx = 1
    /\ message = <<>>
    /\ error = NoError
    /\ uncaught = FALSE
    /\ from_date = 0
    /\ attempts = <<>>
    /\ t_start = 0
    /\ t_read = -1
    /\ last_read = -1
    /\ iteration = 0
    /\ verdicts = HOMEWORK_STATUSES
    /\ credentials = Credentials
    /\ token_checks = <<>>
    /\ sleeps_since_fetch = 0
    /\ prev = NoPrev
    /\ replay = NoAnswer
    /\ prev_attempts = <<>>

\* An exception e leaves a statement of the try body (lines 169-175): the
\* handler of line 176 takes it if it matches, else only `finally` runs.
RaiseInTry(e) ==
    /\ error' = e
    /\ uncaught' = ~main_catches(e.cls)
    /\ pc' = IF main_catches(e.cls) THEN "except" ELSE "sleep"

\* Lines 165-167: the bot, the first cursor, check_tokens().
Start ==
    /\ pc = "main"
    /\ \E built \in Bot(credentials) :
          IF built = "raise"
          THEN /\ uncaught' = TRUE
               /\ pc' = "exited"
               /\ UNCHANGED <<current_timestamp, last_read, t_start,
                              iteration, token_checks>>
          ELSE /\ current_timestamp' = now
               /\ last_read' = now
               /\ t_start' = now
               /\ iteration' = 1
               /\ pc' = "get_api_answer"
               /\ token_checks' =
                     Append(token_checks, check_tokens(credentials))
               /\ UNCHANGED uncaught
    /\ UNCHANGED <<now, net, response, homeworks, idx, message, error,
                   from_date, attempts, t_read>>
    /\ UNCHANGED <<verdicts, credentials, sleeps_since_fetch, prev,
                   replay, prev_attempts>>

\* Lines 65-69: what requests.get can come back with.  A server that is
\* holding an answer gives that answer again; otherwise anything.
Served == IF replay = NoAnswer THEN Answers ELSE {replay}

\* Line 170: response = get_api_answer(current_timestamp).
Fetch ==
    /\ pc = "get_api_answer"
    /\ \E answer \in Served, d \in Delays :
          LET r == get_api_answer(answer)
          IN  /\ now + d <= MaxTime
              /\ now' = now + d
              /\ net' = answer
              /\ from_date' = Params(current_timestamp).from_date
              /\ IF r.raised
                 THEN RaiseInTry(r.error) /\ UNCHANGED response
                 ELSE /\ response' = r.value
                      /\ pc' = "check_response"
                      /\ UNCHANGED <<error, uncaught>>
    /\ UNCHANGED <<current_timestamp, homeworks, idx, message, attempts,
                   t_start, t_read, last_read, iteration>>
    /\ sleeps_since_fetch' = 0
    /\ UNCHANGED <<verdicts, credentials, token_checks, prev,
                   replay, prev_attempts>>

\* Line 171: homeworks = check_response(response).
Validate ==
    /\ pc = "check_response"
    /\ LET r == check_response(response)
       IN  IF r.raised
           THEN RaiseInTry(r.error) /\ UNCHANGED <<homeworks, idx>>
           ELSE /\ homeworks' = r.value
                /\ idx' = 1
                /\ pc' = "for"
                /\ UNCHANGED <<error, uncaught>>
    /\ UNCHANGED <<now, current_timestamp, net, response, message, from_date,
                   attempts, t_start, t_read, last_read, iteration>>
    /\ UNCHANGED <<verdicts, credentials, token_checks, sleeps_since_fetch, prev,
                   replay, prev_attempts>>

\* A loop that parses every record that is left before it notifies about
\* the next one.
ParseChecksAll ==
    /\ pc = "for"
    /\ idx <= Len(homeworks)
    /\ LET bad == {k \in idx..Len(homeworks) :
                      parse_status(homeworks[k]).raised}
           r == parse_status(homeworks[idx])
       IN  IF bad # {}
           THEN LET k == CHOOSE k \in bad : \A j \in bad : k <= j
                IN  /\ RaiseInTry(parse_status(homeworks[k]).error)
                    /\ idx' = k
                    /\ UNCHANGED message
           ELSE /\ message' = r.value
                /\ pc' = "send_message"
                /\ UNCHANGED <<idx, error, uncaught>>
    /\ UNCHANGED <<now, current_timestamp, net, response, homeworks,
                   from_date, attempts, t_start, t_read, last_read, iteration>>
    /\ UNCHANGED <<verdicts, credentials, token_checks, sleeps_since_fetch, prev,
                   replay, prev_attempts>>

\* Lines 172-173: the next record of the for loop is parsed.
Parse ==
    /\ pc = "for"
    /\ idx <= Len(homeworks)
    /\ LET r == parse_status(homeworks[idx])
       IN  IF r.raised
           THEN RaiseInTry(r.error) /\ UNCHANGED message
           ELSE /\ message' = r.value
                /\ pc' = "send_message"
                /\ UNCHANGED <<error, uncaught>>
    /\ UNCHANGED <<now, current_timestamp, net, response, homeworks, idx,
                   from_date, attempts, t_start, t_read, last_read, iteration>>
    /\ UNCHANGED <<verdicts, credentials, token_checks, sleeps_since_fetch, prev,
                   replay, prev_attempts>>

\* A loop that notifies about the first record only and then leaves.
NotifyFirstOnly ==
    /\ pc = "send_message"
    /\ \E outcome \in Outcomes :
          LET r == send_message(message, outcome)
          IN  /\ attempts' = Append(attempts,
                    [text |-> r.value.text, delivered |-> r.value.delivered,
                     line |-> 174, record |-> idx])
              /\ IF r.raised
                 THEN RaiseInTry(r.error) /\ UNCHANGED idx
                 ELSE /\ idx' = Len(homeworks) + 1
                      /\ pc' = "for"
                      /\ UNCHANGED <<error, uncaught>>
    /\ UNCHANGED <<now, current_timestamp, net, response, homeworks, message,
                   from_date, t_start, t_read, last_read, iteration>>
    /\ UNCHANGED <<verdicts, credentials, token_checks, sleeps_since_fetch, prev,
                   replay, prev_attempts>>

\* Line 174: send_message(bot, message) for the record just parsed.
Notify ==
    /\ pc = "send_message"
    /\ \E outcome \in Outcomes :
          LET r == send_message(message, outcome)
          IN  /\ attempts' = Append(attempts,
                    [text |-> r.value.text, delivered |-> r.value.delivered,
                     line |-> 174, record |-> idx])
              /\ IF r.raised
                 THEN RaiseInTry(r.error) /\ UNCHANGED idx
                 ELSE /\ idx' = idx + 1
                      /\ pc' = "for"
                      /\ UNCHANGED <<error, uncaught>>
    /\ UNCHANGED <<now, current_timestamp, net, response, homeworks, message,
                   from_date, t_start, t_read, last_read, iteration>>
    /\ UNCHANGED <<verdicts, credentials, token_checks, sleeps_since_fetch, prev,
                   replay, prev_attempts>>

\* A loop end that reads the clock but does not store it in the cursor.
AdvanceKeepsCursor ==
    /\ pc = "for"
    /\ idx > Len(homeworks)
    /\ t_read' = now
    /\ last_read' = now
    /\ pc' = "sleep"
    /\ UNCHANGED <<now, current_timestamp, net, response, homeworks, idx,
                   message, error, uncaught, from_date, attempts, t_start,
                   iteration>>
    /\ UNCHANGED <<verdicts, credentials, token_checks, sleeps_since_fetch, prev,
                   replay, prev_attempts>>

\* Line 175: the for loop is exhausted, the cursor moves to the current time.
Advance ==
    /\ pc = "for"
    /\ idx > Len(homeworks)
    /\ current_timestamp' = now
    /\ t_read' = now
    /\ last_read' = now
    /\ pc' = "sleep"
    /\ UNCHANGED <<now, net, response, homeworks, idx, message, error,
                   uncaught, from_date, attempts, t_start, iteration>>
    /\ UNCHANGED <<verdicts, credentials, token_checks, sleeps_since_fetch, prev,
                   replay, prev_attempts>>

\* A handler that ends with a bare `raise`.
ExceptReraises ==
    /\ pc = "except"
    /\ \E outcome \in Outcomes :
          LET text == FailureMessage(error)
              r == send_message(text, outcome)
          IN  /\ message' = text
              /\ attempts' = Append(attempts,
                    [text |-> r.value.text, delivered |-> r.value.delivered,
                     line |-> 178, record |-> 0])
    /\ uncaught' = TRUE
    /\ pc' = "sleep"
    /\ UNCHANGED <<now, current_timestamp, net, response, homeworks, idx, error,
                   from_date, t_start, t_read, last_read, iteration>>
    /\ UNCHANGED <<verdicts, credentials, token_checks, sleeps_since_fetch, prev,
                   replay, prev_attempts>>

\* A handler that also moves the cursor to the present.
ExceptAdvancesCursor ==
    /\ pc = "except"
    /\ \E outcome \in Outcomes :
          LET text == FailureMessage(error)
              r == send_message(text, outcome)
          IN  /\ message' = text
              /\ attempts' = Append(attempts,
                    [text |-> r.value.text, delivered |-> r.value.delivered,
                     line |-> 178, record |-> 0])
              /\ uncaught' = r.raised
    /\ current_timestamp' = now
    /\ pc' = "sleep"
    /\ UNCHANGED <<now, net, response, homeworks, idx, error,
                   from_date, t_start, t_read, last_read, iteration>>
    /\ UNCHANGED <<verdicts, credentials, token_checks, sleeps_since_fetch, prev,
                   replay, prev_attempts>>

\* A handler that goes round the loop again without the sleep of `finally`.
ExceptNoSleep ==
    /\ pc = "except"
    /\ \E outcome \in Outcomes :
          LET text == FailureMessage(error)
              r == send_message(text, outcome)
          IN  /\ message' = text
              /\ attempts' = Append(attempts,
                    [text |-> r.value.text, delivered |-> r.value.delivered,
                     line |-> 178, record |-> 0])
              /\ uncaught' = r.raised
    /\ pc' = "get_api_answer"
    /\ UNCHANGED <<now, current_timestamp, net, response, homeworks, idx, error,
                   from_date, t_start, t_read, last_read, iteration>>
    /\ UNCHANGED <<verdicts, credentials, token_checks, sleeps_since_fetch, prev,
                   replay, prev_attempts>>

\* Lines 176-178: the handler composes the failure message and sends it.
Except ==
    /\ pc = "except"
    /\ \E outcome \in Outcomes :
          LET text == FailureMessage(error)
              r == send_message(text, outcome)
          IN  /\ message' = text
              /\ attempts' = Append(attempts,
                    [text |-> r.value.text, delivered |-> r.value.delivered,
                     line |-> 178, record |-> 0])
              /\ uncaught' = r.raised
    /\ pc' = "sleep"
    /\ UNCHANGED <<now, current_timestamp, net, response, homeworks, idx, error,
                   from_date, t_start, t_read, last_read, iteration>>
    /\ UNCHANGED <<verdicts, credentials, token_checks, sleeps_since_fetch, prev,
                   replay, prev_attempts>>

\* Lines 179-180, then line 168: `finally` sleeps; a propagating exception
\* then leaves main, otherwise the next iteration begins.  The locals of the
\* finished iteration are dead (each is assigned before it is read again),
\* so they and the iteration's history are cleared.
SleepThen(held, kept) ==
    /\ pc = "sleep"
    /\ now + RETRY_TIME <= MaxTime
    /\ now' = now + RETRY_TIME
    /\ IF uncaught
       THEN /\ pc' = "exited"
            /\ UNCHANGED <<net, response, homeworks, idx, message, error,
                           uncaught, attempts, t_start, t_read, iteration>>
       ELSE /\ pc' = "get_api_answer"
            /\ net' = NoAnswer
            /\ response' = NoBody
            /\ homeworks' = <<>>
            /\ idx' = 1
            /\ message' = <<>>
            /\ error' = NoError
            /\ uncaught' = FALSE
            /\ attempts' = <<>>
            /\ t_start' = now'
            /\ t_read' = -1
            /\ iteration' = iteration + 1
    /\ UNCHANGED <<current_timestamp, from_date, last_read>>
    /\ sleeps_since_fetch' = sleeps_since_fetch + 1
    /\ prev' = [failed |-> error # NoError, from_date |-> from_date]
    /\ replay' = held
    /\ prev_attempts' = kept
    /\ UNCHANGED <<verdicts, credentials, token_checks>>

\* Lines 179-180 against a server that holds nothing between polls.
Sleep == SleepThen(NoAnswer, <<>>)

\* Lines 179-180 against a server that answers the poll after a failed
\* iteration exactly as it answered the failed one.
ReplaySleep ==
    SleepThen(IF error # NoError THEN net ELSE NoAnswer,
              IF error # NoError THEN attempts ELSE <<>>)

Next ==
    \/ Start
    \/ Fetch
    \/ Validate
    \/ Parse
    \/ Notify
    \/ Advance
    \/ Except
    \/ Sleep

Spec == Init /\ [][Next]_vars

\* The interpreter runs the single thread whenever it can take a step.
FairSpec == Spec /\ WF_vars(Next)

\* Startup in every environment: any subset of the credentials may be set.
StartupInit ==
    /\ pc = "main"
    /\ now = 0
    /\ current_timestamp = 0
    /\ net = NoAnswer
    /\ response = NoBody
    /\ homeworks = <<>>
    /\ idx = 1
    /\ message = <<>>
    /\ error = NoError
    /\ uncaught = FALSE
    /\ from_date = 0
    /\ attempts = <<>>
    /\ t_start = 0
    /\ t_read = -1
    /\ last_read = -1
    /\ iteration = 0
    /\ verdicts = HOMEWORK_STATUSES
    /\ credentials \in SUBSET Credentials
    /\ token_checks = <<>>
    /\ sleeps_since_fetch = 0
    /\ prev = NoPrev
    /\ replay = NoAnswer
    /\ prev_attempts = <<>>

\* The same program followed through its first iteration and up to the
\* request of the second.
InStartup == iteration <= 1 \/ pc = "get_api_answer"

StartupNext ==
    \/ Start /\ InStartup'
    \/ Fetch /\ InStartup'
    \/ Validate /\ InStartup'
    \/ Parse /\ InStartup'
    \/ Notify /\ InStartup'
    \/ Advance /\ InStartup'
    \/ Except /\ InStartup'
    \/ Sleep /\ InStartup'

StartupSpec == StartupInit /\ [][StartupNext]_vars

\* The program polling a server that repeats its answer after a failure.
ReplayNext ==
    \/ Start
    \/ Fetch
    \/ Validate
    \/ Parse
    \/ Notify
    \/ Advance
    \/ Except
    \/ ReplaySleep

ReplaySpec == Init /\ [][ReplayNext]_vars

----------------------------------------------------------------------------
(* Vocabulary of the properties *)

\* Positions of main after this iteration's request was issued.
AfterFetch == {"check_response", "for", "send_message", "except", "sleep"}

\* The try statement of this iteration is over; only the sleep remains.
IterationDone == pc = "sleep"

KnownStatuses == {"approved", "reviewing", "rejected"}

WellFormed(hw) == hw.status \in KnownStatuses /\ hw.homework_name # None

\* The fetch returned a mapping with both keys and a list of records.
ValidResponse(answer) ==
    /\ answer.transport = "ok"
    /\ answer.status_code = 200
    /\ answer.decodable
    /\ answer.body.is_dict
    /\ answer.body.has_homeworks
    /\ answer.body.has_current_date
    /\ answer.body.homeworks_is_list

Received == net.body.homeworks

\* sub occurs in text as a run of consecutive fragments.
IsInfix(sub, text) ==
    \E i \in 0..(Len(text) - Len(sub)) :
        \A j \in 1..Len(sub) : text[i + j] = sub[j]

FailurePrefix == "Sboy v rabote programmy: "

IsFailureAttempt(a) == a.line = 178 /\ a.text[1] = FailurePrefix
IsStatusAttempt(a) == a.line = 174 /\ a.text[1] # FailurePrefix

FailureAttempts == {k \in 1..Len(attempts) : IsFailureAttempt(attempts[k])}
StatusAttempts == {k \in 1..Len(attempts) : IsStatusAttempt(attempts[k])}

\* The spec's error kinds, as the code raises them.
IsUnknownStatusError(e) ==
    /\ e.cls = "KeyError"
    /\ e.text[1] = "Domashney rabote prisvoen neizvestnyy status. "
IsMissingFieldError(e) ==
    /\ e.cls = "KeyError"
    /\ e.text = <<"Domashney rabote ne prisvoeno nazvanie">>

\* Index of the first received record whose parse fails, Len + 1 if none.
FirstBad(hws) ==
    IF \E k \in 1..Len(hws) : ~WellFormed(hws[k])
    THEN CHOOSE k \in 1..Len(hws) :
            /\ ~WellFormed(hws[k])
            /\ \A j \in 1..(k - 1) : WellFormed(hws[j])
    ELSE Len(hws) + 1

----------------------------------------------------------------------------
(* C1: when the fetch of an iteration returns a valid response whose N     *)
(* records are all well-formed, the iteration ends with exactly N          *)
(* notification attempts, the k-th carrying the message composed from the  *)
(* k-th received record, and none of them is a failure message.            *)
C1_ValidResponseNotifiesEachRecord ==
    (/\ IterationDone
     /\ ValidResponse(net)
     /\ \A k \in 1..Len(Received) : WellFormed(Received[k]))
    => /\ Len(attempts) = Len(Received)
       /\ \A k \in 1..Len(attempts) :
            /\ attempts[k].record = k
            /\ attempts[k].text =
                  StatusMessage(Received[k].homework_name,
                                HOMEWORK_STATUSES[Received[k].status])
            /\ ~IsFailureAttempt(attempts[k])
       /\ error = NoError

C1_Witness ==
    /\ IterationDone
    /\ ValidResponse(net)
    /\ Len(Received) = 2
    /\ Received[1].status = "rejected"
    /\ Received[2].status = "approved"
    /\ Received[1].homework_name = "proj1"
    /\ Received[2].homework_name = "proj1"
    /\ Len(attempts) = 2
    /\ attempts[2].text[4] = HOMEWORK_STATUSES["approved"]

(* C2: an error raised by get_api_answer, check_response or parse_status   *)
(* is caught by the loop, which makes exactly one attempt to send a        *)
(* failure message containing the error text (the last attempt of the      *)
(* iteration); the sleep that follows lasts RETRY_TIME, as after a         *)
(* successful iteration, and then the next iteration starts; main never    *)
(* exits.                                                                  *)
C2_ErrorIsCaughtReportedAndRetried ==
    /\ [](pc # "exited")
    /\ []((IterationDone /\ error # NoError)
            => /\ ~uncaught
               /\ error.cls \in {"ServerError", "HTTPStatusError", "TypeError",
                                 "CheckApiAnswerError", "ParseError", "KeyError"}
               /\ FailureAttempts = {Len(attempts)}
               /\ attempts[Len(attempts)].text = <<FailurePrefix>> \o Str(error)
               /\ IsInfix(error.text, attempts[Len(attempts)].text))
    /\ [][IterationDone
            => /\ now' = now + RETRY_TIME
               /\ pc' = "get_api_answer"
               /\ iteration' = iteration + 1]_vars

C2_Witness ==
    /\ IterationDone
    /\ ValidResponse(net)
    /\ IsUnknownStatusError(error)
    /\ Len(attempts) = 2
    /\ IsStatusAttempt(attempts[1])
    /\ IsFailureAttempt(attempts[2])
    /\ iteration = 2

(* C3: a failed delivery never propagates out of send_message.  Whatever   *)
(* the delivery outcomes are, a valid response gets one status attempt per *)
(* record up to the first record that fails to parse, the only error an    *)
(* iteration can hold is the one of fetch, validation or parse (never the  *)
(* delivery's), an iteration without such an error advances the cursor, and*)
(* an undelivered failure message still leaves the loop before its sleep.  *)
C3_DeliveryFailureNeverPropagates ==
    /\ error.cls # "TelegramError"
    /\ ~uncaught
    /\ pc # "exited"
    /\ (IterationDone /\ ValidResponse(net))
        => LET bad == FirstBad(Received)
           IN  /\ StatusAttempts = 1..(bad - 1)
               /\ \A k \in StatusAttempts : attempts[k].record = k
               /\ IF bad <= Len(Received)
                  THEN /\ error = parse_status(Received[bad]).error
                       /\ Len(attempts) = bad
                  ELSE /\ error = NoError
                       /\ Len(attempts) = Len(Received)
                       /\ t_read = now
                       /\ current_timestamp = t_read
    /\ \A k \in 1..Len(attempts) :
          (IsFailureAttempt(attempts[k]) /\ ~attempts[k].delivered)
            => (IterationDone /\ k = Len(attempts))

C3_Witness ==
    /\ IterationDone
    /\ ValidResponse(net)
    /\ Len(Received) = 2
    /\ Len(attempts) = 2
    /\ ~attempts[1].delivered
    /\ IsStatusAttempt(attempts[2])
    /\ error = NoError
    /\ iteration = 2
    /\ current_timestamp = now

(* C4: the loop has no terminal state.  main never exits, and whatever the *)
(* fetch, validation, parse and delivery outcomes are, a fetch is due      *)
(* again and again for as long as the modelled clock can hold one more     *)
(* sleep (now + RETRY_TIME <= MaxTime).                                    *)
C4_FetchAlwaysComesAgain ==
    /\ [](pc # "exited")
    /\ []<>(pc = "get_api_answer" \/ now + RETRY_TIME > MaxTime)

\* The third fetch is about to be issued although both earlier iterations
\* failed (the second one on a response without the homeworks key).
C4_Witness ==
    /\ pc = "get_api_answer"
    /\ iteration = 3
    /\ current_timestamp = 0
    /\ now >= 2 * RETRY_TIME

(* C5 as stated: a response mapping without the homeworks key fails        *)
(* validation with CheckApiAnswerError and the iteration makes no          *)
(* notification attempt at all.                                            *)
C5_NoAttemptAtAll ==
    (/\ IterationDone
     /\ get_api_answer(net) = Returns(net.body)
     /\ net.body.is_dict
     /\ ~net.body.has_homeworks)
    => /\ error.cls = "CheckApiAnswerError"
       /\ Len(attempts) = 0

(* C5 amended: a response mapping without the homeworks key fails          *)
(* validation with CheckApiAnswerError; the iteration makes no attempt to  *)
(* notify about a record, and exactly one attempt, which carries the       *)
(* failure message with the error text.                                    *)
C5_OnlyTheFailureMessage ==
    (/\ pc \in {"except", "sleep"}
     /\ get_api_answer(net) = Returns(net.body)
     /\ net.body.is_dict
     /\ ~net.body.has_homeworks)
    => /\ error = Exc("CheckApiAnswerError",
                      <<"V slovare otsutvuet klyuch homeworks">>)
       /\ StatusAttempts = {}
       /\ IterationDone
            => /\ Len(attempts) = 1
               /\ IsFailureAttempt(attempts[1])
               /\ IsInfix(error.text, attempts[1].text)

C5_Witness ==
    /\ IterationDone
    /\ net.status_code = 200
    /\ net.decodable
    /\ net.body.is_dict
    /\ ~net.body.has_homeworks
    /\ net.body.has_current_date
    /\ Len(attempts) = 1
    /\ error.cls = "CheckApiAnswerError"

\* Record k of a valid response is not notified about in this iteration.
NoAttemptFor(k) == \A j \in 1..Len(attempts) : attempts[j].record # k

\* Record k is the one whose parse ended the for loop.
ParseFailedAt(k) == pc \in {"except", "sleep"} /\ error # NoError /\ idx = k

(* C6 as stated: every record of a valid response whose status value is    *)
(* present and not one of approved, reviewing, rejected fails to parse     *)
(* with the unknown-status error and is not notified about.                *)
C6_UnknownStatusAlwaysReported ==
    (pc \in {"except", "sleep"} /\ ValidResponse(net))
    => \A k \in 1..Len(Received) :
          (Received[k].status \notin KnownStatuses \cup {None})
            => /\ IsUnknownStatusError(parse_status(Received[k]).error)
               /\ NoAttemptFor(k)
               /\ ParseFailedAt(k) => IsUnknownStatusError(error)

(* C6 amended: every record of a valid response that has a homework_name   *)
(* and whose status value is present and not one of approved, reviewing,   *)
(* rejected fails to parse with the unknown-status error (a KeyError whose *)
(* text names the status) and is not notified about in that iteration.     *)
C6_UnknownStatusOfNamedRecord ==
    (pc \in {"except", "sleep"} /\ ValidResponse(net))
    => \A k \in 1..Len(Received) :
          (/\ Received[k].status \notin KnownStatuses \cup {None}
           /\ Received[k].homework_name # None)
            => /\ IsUnknownStatusError(parse_status(Received[k]).error)
               /\ IsInfix(<<Received[k].status>>,
                          parse_status(Received[k]).error.text)
               /\ NoAttemptFor(k)
               /\ k <= idx => (ParseFailedAt(k) /\ IsUnknownStatusError(error))

C6_Witness ==
    /\ IterationDone
    /\ ValidResponse(net)
    /\ Len(Received) = 2
    /\ WellFormed(Received[1])
    /\ Received[2] = [status |-> "graded", homework_name |-> "proj1"]
    /\ IsUnknownStatusError(error)
    /\ idx = 2
    /\ Len(attempts) = 2

(* C7 as stated: after every iteration, with or without an error, the      *)
(* cursor equals the time read during that iteration.                      *)
C7_CursorAdvancedEveryIteration ==
    IterationDone => (t_read # -1 /\ current_timestamp = t_read)

(* C7 amended: the cursor is advanced to the current time once in every    *)
(* iteration in which no error is raised: after such an iteration it       *)
(* equals the time read at the end of that iteration.  An iteration in     *)
(* which an error is raised reads no time and leaves the cursor at the     *)
(* value it sent as from_date.  The cursor changes at no other place.      *)
C7_CursorAdvancedOnSuccessOnly ==
    /\ [](IterationDone
            => IF error = NoError
               THEN /\ t_read = now
                    /\ t_read >= t_start
                    /\ current_timestamp = t_read
               ELSE /\ t_read = -1
                    /\ current_timestamp = from_date)
    /\ [][current_timestamp' # current_timestamp
            => /\ pc \in {"main", "for"}
               /\ pc' \in {"get_api_answer", "sleep"}
               /\ current_timestamp' = now]_vars

C7_Witness ==
    /\ IterationDone
    /\ error = NoError
    /\ iteration = 2
    /\ current_timestamp = t_read
    /\ t_read > t_start
    /\ from_date < t_start

(* C8 as stated: the from_date of each request is the time at the start of *)
(* the iteration that issues it.                                           *)
C8_FromDateIsIterationStart ==
    pc \in AfterFetch => from_date = t_start

(* C8 amended: the current time is read at startup and at the end of each  *)
(* error-free iteration, never at the start of an iteration; every         *)
(* iteration calls the API client with the cursor, so the from_date of a   *)
(* request is the latest of those readings: the startup time in the first  *)
(* iteration, and afterwards a time at least one sleep older than the      *)
(* start of the iteration that issues the request.                         *)
C8_FromDateIsLatestReading ==
    /\ pc \in AfterFetch \ {"sleep"}
        => /\ from_date = last_read
           /\ from_date = current_timestamp
    /\ pc \in AfterFetch
        => IF iteration = 1
           THEN from_date = t_start
           ELSE from_date + RETRY_TIME <= t_start

C8_Witness ==
    /\ pc = "check_response"
    /\ iteration = 2
    /\ from_date = 1
    /\ last_read = 1
    /\ t_start = RETRY_TIME + 1
    /\ now = t_start + 1

(* C9: an answer with a status code other than 200 makes get_api_answer    *)
(* raise HTTPStatusError with the observed code in its text, whether or    *)
(* not the body can be decoded; the loop handles it and reaches the sleep  *)
(* of the same iteration.                                                  *)
C9_Non200IsHTTPStatusError ==
    /\ []((pc \in AfterFetch /\ net.transport = "ok"
              /\ net.status_code # 200)
            => /\ pc \in {"except", "sleep"}
               /\ ~uncaught
               /\ error.cls = "HTTPStatusError"
               /\ IsInfix(<<ToString(net.status_code)>>, error.text)
               /\ response = NoBody)
    /\ [][(pc = "except" /\ error.cls = "HTTPStatusError")
            => (pc' = "sleep" /\ iteration' = iteration
                  /\ error' = error)]_vars

C9_Witness ==
    /\ IterationDone
    /\ net.transport = "ok"
    /\ net.status_code = 404
    /\ ~net.decodable
    /\ error.cls = "HTTPStatusError"
    /\ IsInfix(<<"404">>, error.text)
    /\ IsInfix(<<"404">>, attempts[1].text)

(* C10: get_api_answer has four outcomes.  It raises ServerError when the  *)
(* transport call fails and when the status is 200 but the body cannot be  *)
(* decoded, HTTPStatusError when the status is not 200, and it returns the *)
(* decoded body exactly when the transport succeeds, the status is 200 and *)
(* the body decodes.                                                       *)
C10_OutcomesOfGetApiAnswer ==
    pc \in AfterFetch
    => LET decoded == /\ net.transport = "ok"
                      /\ net.status_code = 200
                      /\ net.decodable
       IN  /\ decoded
              => /\ response = net.body
                 /\ error.cls \notin {"ServerError", "HTTPStatusError",
                                      "ConnectionError", "JSONDecodeError"}
           /\ ~decoded
              => /\ pc \in {"except", "sleep"}
                 /\ response = NoBody
                 /\ error.cls =
                       IF net.transport = "ok" /\ net.status_code # 200
                       THEN "HTTPStatusError"
                       ELSE "ServerError"
           /\ pc = "check_response" => (decoded /\ error = NoError)

C10_Witness ==
    /\ IterationDone
    /\ net.transport = "ok"
    /\ net.status_code = 200
    /\ ~net.decodable
    /\ error.cls = "ServerError"
    /\ IsInfix(<<"JSONDecodeError">>, error.text)

\* The decoded body of this iteration reached check_response.
Decoded ==
    /\ net.transport = "ok"
    /\ net.status_code = 200
    /\ net.decodable

\* check_response has run in this iteration.
Validated == pc \in {"for", "send_message", "except", "sleep"} /\ Decoded

(* C11: check_response raises TypeError (the spec's ShapeError) for a body *)
(* that is not a mapping, and CheckApiAnswerError when the homeworks key   *)
(* is absent, when the current_date key is absent, and when homeworks is   *)
(* not a list.  The tests run in that order, each key on its own: a        *)
(* mapping without both keys reports the homeworks key, a mapping without  *)
(* current_date reports it even when homeworks is not a list.              *)
C11_CheckResponseErrors ==
    Validated
    => LET b == net.body
       IN  /\ ~b.is_dict
              => error = Exc("TypeError", <<"Otvet peredan ne v formate dict">>)
           /\ (b.is_dict /\ ~b.has_homeworks)
              => error = Exc("CheckApiAnswerError",
                             <<"V slovare otsutvuet klyuch homeworks">>)
           /\ (b.is_dict /\ b.has_homeworks /\ ~b.has_current_date)
              => error = Exc("CheckApiAnswerError",
                             <<"V slovare otsutvuet klyuch current_date">>)
           /\ (b.is_dict /\ b.has_homeworks /\ b.has_current_date
                 /\ ~b.homeworks_is_list)
              => error = Exc("CheckApiAnswerError",
                             <<"Domashnie raboty prishli ne v vide spiska">>)
           /\ ~ValidResponse(net)
              => /\ pc \in {"except", "sleep"}
                 /\ homeworks = <<>>
                 /\ StatusAttempts = {}

\* A mapping that has neither key was validated.
C11_Witness ==
    /\ IterationDone
    /\ Decoded
    /\ net.body.is_dict
    /\ ~net.body.has_homeworks
    /\ ~net.body.has_current_date
    /\ error.text = <<"V slovare otsutvuet klyuch homeworks">>
    /\ IsInfix(error.text, attempts[1].text)

(* C12: for a mapping with both keys whose homeworks value is a list,      *)
(* check_response returns that list unchanged: same records, same order.   *)
(* An empty list is no error: the iteration makes no notification attempt  *)
(* and ends by advancing the cursor to the current time.                   *)
C12_HomeworksReturnedUnchanged ==
    (Validated /\ ValidResponse(net))
    => /\ homeworks = Received
       /\ Len(homeworks) = Len(net.body.homeworks)
       /\ \A k \in 1..Len(homeworks) : homeworks[k] = net.body.homeworks[k]
       /\ (IterationDone /\ Received = <<>>)
            => /\ error = NoError
               /\ attempts = <<>>
               /\ t_read = now
               /\ current_timestamp = t_read

\* Two different records came back in the order received, in an iteration
\* that follows one with an empty list.
C12_Witness ==
    /\ pc = "for"
    /\ iteration = 2
    /\ current_timestamp = 1
    /\ ValidResponse(net)
    /\ Len(Received) = 2
    /\ Received[1].status = "reviewing"
    /\ Received[2].status = "approved"
    /\ homeworks = Received

\* The record whose parse ended the for loop of this iteration.
FailedRecord == homeworks[idx]

ParseFailed ==
    /\ pc \in {"except", "sleep"}
    /\ ValidResponse(net)
    /\ error # NoError

(* C13 as stated: ParseError when status is absent (also when both fields  *)
(* are absent), MissingFieldError when homework_name is absent,            *)
(* UnknownStatusError whenever the status is present but not one of the    *)
(* three known values.                                                     *)
C13_ThreeKindsByField ==
    ParseFailed
    => /\ FailedRecord.status = None => error.cls = "ParseError"
       /\ (FailedRecord.homework_name = None /\ FailedRecord.status # None)
            => IsMissingFieldError(error)
       /\ FailedRecord.status \notin KnownStatuses \cup {None}
            => IsUnknownStatusError(error)

(* C13 amended: parse_status fails with ParseError when the status field   *)
(* is absent (whether or not the name is present), with the missing-name   *)
(* error when the status is present and homework_name is absent (whatever  *)
(* the status value), and with the unknown-status error when both fields   *)
(* are present and the status is not one of the three known values.  The   *)
(* last two are both KeyError in the code, told apart by their text only.  *)
C13_ThreeKindsInCheckOrder ==
    ParseFailed
    => /\ FailedRecord.status = None
            => error = Exc("ParseError",
                           <<"Domashney rabote ne prisvoen status">>)
       /\ (FailedRecord.status # None /\ FailedRecord.homework_name = None)
            => /\ IsMissingFieldError(error)
               /\ ~IsUnknownStatusError(error)
       /\ (FailedRecord.status \notin KnownStatuses \cup {None}
             /\ FailedRecord.homework_name # None)
            => /\ IsUnknownStatusError(error)
               /\ ~IsMissingFieldError(error)
       /\ ~WellFormed(FailedRecord)
       /\ error.cls \in {"ParseError", "KeyError"}

\* A record with neither field ended the loop with ParseError.
C13_Witness ==
    /\ IterationDone
    /\ ParseFailed
    /\ idx = 2
    /\ FailedRecord = [status |-> None, homework_name |-> None]
    /\ error.cls = "ParseError"
    /\ Len(attempts) = 2

(***************************************************************************)
(* C14                                                                     *)
(***************************************************************************)

\* The verdict sentences as the table of lines 26-30 spells them.
VerdictSentence(status) ==
    CASE status = "approved" ->
            "Rabota proverena: revyueru vsyo ponravilos. Ura!"
      [] status = "reviewing" ->
            "Rabota vzyata na proverku revyuerom."
      [] status = "rejected" ->
            "Rabota proverena: u revyuera est zamechaniya."

ComposedMessage(hw) ==
    <<"Izmenilsya status proverki raboty \"", hw.homework_name, "\". ",
      VerdictSentence(hw.status)>>

(* C14: for every record with a present homework_name and a status in      *)
(* {approved, reviewing, rejected}, parse_status returns exactly the fixed *)
(* prefix with the quoted name followed by the verdict sentence the static *)
(* table assigns to that status -- as a function, and for each record the  *)
(* loop parses -- and the verdict table is never modified during the run.  *)
C14_MessageFromStaticTable ==
    /\ [](/\ \A hw \in HomeworkRecords :
                WellFormed(hw)
                => parse_status(hw) = Returns(ComposedMessage(hw))
          /\ (pc = "send_message" /\ WellFormed(homeworks[idx]))
                => message = ComposedMessage(homeworks[idx])
          /\ \A k \in StatusAttempts :
                attempts[k].text = ComposedMessage(homeworks[attempts[k].record])
          /\ verdicts = HOMEWORK_STATUSES)
    /\ [][verdicts' = verdicts]_vars

\* The second record, under review, was parsed into its message.
C14_Witness ==
    /\ pc = "send_message"
    /\ idx = 2
    /\ homeworks[idx] = [status |-> "reviewing", homework_name |-> "proj1"]
    /\ message = <<"Izmenilsya status proverki raboty \"", "proj1", "\". ",
                   "Rabota vzyata na proverku revyuerom.">>
    /\ Len(attempts) = 1

(***************************************************************************)
(* C15                                                                     *)
(***************************************************************************)

LoopPositions ==
    {"get_api_answer", "check_response", "for", "send_message", "except",
     "sleep"}

CredentialMissing == credentials # Credentials

FailureReportedOnce ==
    token_checks = <<[returned |-> FALSE, logged |-> "critical"]>>

\* The loop was entered, and past its first statement the first request
\* has been made.
LoopEntered ==
    /\ pc \in LoopPositions
    /\ iteration >= 1
    /\ (iteration = 1 /\ pc # "get_api_answer") => net # NoAnswer

(* C15 as stated: when any of the three credentials is missing at startup, *)
(* check_tokens reports failure once (critical log, returns false) and the *)
(* poll loop is entered and runs anyway: the first fetch is issued         *)
(* regardless of the check's result.                                       *)
C15_AnyMissingCredentialStillPolls ==
    (CredentialMissing /\ pc # "main")
    => FailureReportedOnce /\ LoopEntered

(* C15 amended: when PRACTICUM_TOKEN or TELEGRAM_CHAT_ID is missing and    *)
(* TELEGRAM_TOKEN is set, check_tokens reports failure once (critical log, *)
(* returns false) and the poll loop is entered and runs anyway.  When      *)
(* TELEGRAM_TOKEN is missing the same holds only if the Bot constructor,   *)
(* called before check_tokens and outside the try, returns; if it raises,  *)
(* main ends with no check made and no fetch issued.                       *)
C15_MissingCredentialPollsOnceBotIsBuilt ==
    (CredentialMissing /\ pc # "main")
    => \/ FailureReportedOnce /\ LoopEntered
       \/ /\ "TELEGRAM_TOKEN" \notin credentials
          /\ pc = "exited"
          /\ token_checks = <<>>
          /\ iteration = 0
          /\ net = NoAnswer

\* Without PRACTICUM_TOKEN the check failed and the first request was made.
C15_Witness ==
    /\ credentials = {"TELEGRAM_TOKEN", "TELEGRAM_CHAT_ID"}
    /\ FailureReportedOnce
    /\ iteration = 1
    /\ pc = "check_response"
    /\ net # NoAnswer

(***************************************************************************)
(* C16                                                                     *)
(***************************************************************************)

FetchStep == pc = "get_api_answer" /\ pc' # "get_api_answer"
SleepStep == pc = "sleep" /\ pc' # "sleep"
AttemptStep == attempts' # attempts /\ attempts' # <<>>

\* The request of this iteration has been made and its sleep has not begun.
BetweenFetchAndSleep ==
    /\ net # NoAnswer
    /\ sleeps_since_fetch = 0
    /\ pc \in {"check_response", "for", "send_message", "except"}

(* C16: iterations never overlap and are separated by exactly one sleep:   *)
(* every notification attempt of an iteration (per-record or failure       *)
(* message) happens after that iteration's fetch and before its sleep, and *)
(* between any two consecutive fetches there is exactly one sleep, on the  *)
(* success path and on the error path alike.                               *)
C16_OneSleepBetweenFetches ==
    /\ [][AttemptStep
            => /\ BetweenFetchAndSleep
               /\ pc \in {"send_message", "except"}
               /\ attempts' = Append(attempts, attempts'[Len(attempts')])
               /\ iteration' = iteration
               /\ net' = net]_vars
    /\ [][FetchStep
            => /\ net = NoAnswer /\ attempts = <<>>
               /\ sleeps_since_fetch = (IF iteration = 1 THEN 0 ELSE 1)
               /\ prev.failed \in BOOLEAN]_vars
    /\ [][SleepStep
            => /\ net # NoAnswer
               /\ sleeps_since_fetch = 0
               /\ sleeps_since_fetch' = 1
               /\ attempts' = <<>>
               /\ iteration' = iteration + 1
               /\ pc' = "get_api_answer"]_vars
    /\ [](pc \in {"check_response", "for", "send_message", "except"}
            => net # NoAnswer /\ sleeps_since_fetch = 0)

\* The third request is about to be made: the second iteration failed, and
\* one sleep followed each of the two.
C16_Witness ==
    /\ pc = "get_api_answer"
    /\ iteration = 3
    /\ now = 2 * RETRY_TIME
    /\ prev.failed
    /\ sleeps_since_fetch = 1
    /\ attempts = <<>>

(***************************************************************************)
(* C17                                                                     *)
(***************************************************************************)

\* An error has been raised in the iteration under way.
Failing == error # NoError /\ pc \in {"except", "sleep"}

(* C17: an iteration in which any error is raised leaves the cursor        *)
(* unchanged, so the from_date sent on every poll equals the time captured *)
(* at the end of the most recent error-free iteration (or at startup if    *)
(* there was none), the next poll after a failure repeats the same         *)
(* from_date, and the cursor never decreases.                              *)
C17_CursorKeptByFailedIteration ==
    /\ [](Failing => current_timestamp = from_date)
    /\ [][(error # NoError \/ error' # NoError)
            => current_timestamp' = current_timestamp]_vars
    /\ [](BetweenFetchAndSleep \/ Failing => from_date = last_read)
    /\ [][last_read' # last_read
            => \/ pc = "main"
               \/ /\ pc = "for" /\ pc' = "sleep"
                  /\ error = NoError /\ error' = NoError
                  /\ last_read' = now']_vars
    /\ [][FetchStep
            => /\ from_date' = current_timestamp
               /\ from_date' = last_read
               /\ prev.failed => from_date' = prev.from_date]_vars
    /\ [][current_timestamp' >= current_timestamp]_vars

\* The poll after a failed iteration, made at 601, asks for the records
\* since 0 again.
C17_Witness ==
    /\ iteration = 2
    /\ pc = "check_response"
    /\ prev.failed
    /\ prev.from_date = 0
    /\ from_date = 0
    /\ now = RETRY_TIME + 1

(***************************************************************************)
(* C18                                                                     *)
(***************************************************************************)

ParseStep == pc = "for" /\ pc' # "for" /\ idx <= Len(homeworks)

(* C18: parsing and notifying are interleaved per record, so when the k-th *)
(* of N records is the first one that fails to parse, records 1..k-1 have  *)
(* each already had one notification attempt, records k+1..N get no parse  *)
(* and no notification attempt in that iteration, and exactly one failure  *)
(* message follows; the iteration therefore makes k notification attempts  *)
(* in total.                                                               *)
C18_ParseAndNotifyInterleaved ==
    /\ [][ParseStep
            => /\ error = NoError
               /\ Len(attempts) = idx - 1
               /\ idx <= FirstBad(homeworks)
               /\ \A j \in 1..(idx - 1) :
                     IsStatusAttempt(attempts[j]) /\ attempts[j].record = j
               /\ (idx = FirstBad(homeworks))
                     => pc' = "except" /\ idx' = idx /\ attempts' = attempts]_vars
    /\ []((IterationDone /\ ValidResponse(net)
            /\ FirstBad(Received) <= Len(Received))
           => LET k == FirstBad(Received)
              IN  /\ ParseFailedAt(k)
                  /\ Len(attempts) = k
                  /\ \A j \in 1..(k - 1) :
                        /\ IsStatusAttempt(attempts[j])
                        /\ attempts[j].record = j
                        /\ attempts[j].text = parse_status(Received[j]).value
                  /\ \A j \in k..Len(Received) : NoAttemptFor(j)
                  /\ IsFailureAttempt(attempts[k])
                  /\ FailureAttempts = {k})

\* The second of two records failed to parse after the first was notified
\* about: two attempts, the second the failure message.
C18_Witness ==
    /\ IterationDone
    /\ ValidResponse(net)
    /\ Len(Received) = 2
    /\ FirstBad(Received) = 2
    /\ Received[2] = [status |-> "graded", homework_name |-> "proj1"]
    /\ Len(attempts) = 2
    /\ IsStatusAttempt(attempts[1])
    /\ attempts[1].delivered
    /\ IsFailureAttempt(attempts[2])

(***************************************************************************)
(* C19                                                                     *)
(***************************************************************************)

\* The request of this iteration was answered as the failed iteration
\* before it had been.
Replaying == replay # NoAnswer /\ net # NoAnswer

(* C19: because a failed iteration does not advance the cursor, records    *)
(* that were already notified about before a later record of the same      *)
(* response failed to parse are fetched with the same from_date on the     *)
(* next poll; if the server returns the same response again, each of those *)
(* records receives a second notification attempt.                         *)
C19_SameResponseNotifiesAgain ==
    Replaying
    => /\ net = replay
       /\ iteration > 1
       /\ prev.failed
       /\ from_date = prev.from_date
       /\ IterationDone
            => /\ error # NoError
               /\ current_timestamp = prev.from_date
               /\ Len(attempts) = Len(prev_attempts)
               /\ \A k \in 1..Len(prev_attempts) :
                     IsStatusAttempt(prev_attempts[k])
                     => /\ IsStatusAttempt(attempts[k])
                        /\ attempts[k].record = prev_attempts[k].record
                        /\ attempts[k].text = prev_attempts[k].text

\* Ten minutes after it was delivered, the message about the first record
\* has been delivered once more.
C19_Witness ==
    /\ Replaying
    /\ IterationDone
    /\ iteration = 2
    /\ ValidResponse(net)
    /\ FirstBad(Received) = 2
    /\ from_date = 0
    /\ now >= RETRY_TIME
    /\ Len(prev_attempts) = 2
    /\ prev_attempts[1].delivered
    /\ attempts[1].delivered
    /\ attempts[1].record = 1
    /\ attempts[1].text = prev_attempts[1].text

====
